---- MODULE Spec2Model ----
(***************************************************************************)
(* Model of pdf_to_st.py: the instruction-list to Structured Text          *)
(* translation engine (split_rungs, _parse_instruction,                    *)
(* rung_to_expression, rung_to_st, convert_text_to_st).                    *)
(*                                                                         *)
(* Text is modelled as a sequence of one-character strings, so that        *)
(* stripping, splitting, case conversion, prefix tests, formatting and     *)
(* joining are computed character by character as Python computes them.    *)
(***************************************************************************)
EXTENDS Integers, Sequences, FiniteSets, TLC

(***************************************************************************)
(* Bounds of the model.                                                    *)
(***************************************************************************)
\* Longest multi-rung input, in lines.
MaxLines == 4

\* Longest single-rung input, in instructions.
MaxInstr == 3

\* The number of pdfs of a call of convert_pdfs_to_st.
MaxSources == 2

VARIABLES
    pdf_texts,        \* convert_pdfs_to_st: what extract_text gives for each pdf
    all_text,         \* convert_pdfs_to_st: the texts extracted so far
    text,             \* the argument of convert_text_to_st
    pc,               \* the position of the program
    lines,            \* text.splitlines()
    li,               \* the position of split_rungs in lines
    current,          \* split_rungs: the buffer
    rungs,            \* split_rungs: the rungs emitted so far
    idx,              \* convert_text_to_st: i of enumerate(rungs, 1)
    ri,               \* rung_to_expression: the position in the rung
    expr_parts,       \* rung_to_expression: the fragment list
    coil_assignment,  \* rung_to_expression: None or the (op, operand) pair
    st_lines,         \* convert_text_to_st: the output lines
    result,           \* the value returned
    work,             \* one worker per rung: the builder state of each
    blocks            \* one worker per rung: the blocks finished

vars == <<pdf_texts, all_text, text, pc, lines, li, current, rungs, idx, ri,
          expr_parts, coil_assignment, st_lines, result, work, blocks>>

(***************************************************************************)
(* Characters and the Python string primitives the program uses.           *)
(***************************************************************************)
UpperAlpha == <<"A","B","C","D","E","F","G","H","I","J","K","L","M",
                "N","O","P","Q","R","S","T","U","V","W","X","Y","Z">>

LowerAlpha == <<"a","b","c","d","e","f","g","h","i","j","k","l","m",
                "n","o","p","q","r","s","t","u","v","w","x","y","z">>

Digits == <<"0","1","2","3","4","5","6","7","8","9">>

NL == "\n"

IsSpace(c) == c \in {" ", "\t", "\n"}

ToUpper ==
    [c \in {LowerAlpha[k] : k \in 1..26} |->
        UpperAlpha[CHOOSE k \in 1..26 : LowerAlpha[k] = c]]

ToLower ==
    [c \in {UpperAlpha[k] : k \in 1..26} |->
        LowerAlpha[CHOOSE k \in 1..26 : UpperAlpha[k] = c]]

UpperChar(c) == IF c \in DOMAIN ToUpper THEN ToUpper[c] ELSE c

LowerChar(c) == IF c \in DOMAIN ToLower THEN ToLower[c] ELSE c

\* upper leaving the letters as they are.
upperAsWritten(s) == s

upper(s) == [k \in 1..Len(s) |-> UpperChar(s[k])]

lower(s) == [k \in 1..Len(s) |-> LowerChar(s[k])]

startswith(s, p) == Len(s) >= Len(p) /\ SubSeq(s, 1, Len(p)) = p

\* str.lstrip(): s from its first character that is no whitespace.
lstrip(s) ==
    IF \A k \in 1..Len(s) : IsSpace(s[k]) THEN <<>>
    ELSE SubSeq(s, CHOOSE k \in 1..Len(s) :
                       ~IsSpace(s[k]) /\ \A m \in 1..(k - 1) : IsSpace(s[m]),
                Len(s))

\* str.rstrip(): s up to its last character that is no whitespace.
rstrip(s) ==
    IF \A k \in 1..Len(s) : IsSpace(s[k]) THEN <<>>
    ELSE SubSeq(s, 1, CHOOSE k \in 1..Len(s) :
                          ~IsSpace(s[k]) /\ \A m \in (k + 1)..Len(s) : IsSpace(s[m]))

strip(s) == rstrip(lstrip(s))

\* str.splitlines(): pieces between line breaks; a final empty piece is
\* not reported.
RECURSIVE splitlines(_)
splitlines(t) ==
    IF t = <<>> THEN <<>>
    ELSE IF \E k \in 1..Len(t) : t[k] = NL
         THEN LET k == CHOOSE j \in 1..Len(t) :
                          t[j] = NL /\ \A m \in 1..(j - 1) : t[m] # NL
              IN  <<SubSeq(t, 1, k - 1)>> \o splitlines(SubSeq(t, k + 1, Len(t)))
         ELSE <<t>>

\* sep.join(parts), from part i on.
RECURSIVE JoinFrom(_, _, _)
JoinFrom(sep, parts, i) ==
    IF i > Len(parts) THEN <<>>
    ELSE IF i = Len(parts) THEN parts[i]
    ELSE parts[i] \o sep \o JoinFrom(sep, parts, i + 1)

\* sep.join(parts)
join(sep, parts) == JoinFrom(sep, parts, 1)

\* str(n) for a non-negative integer
RECURSIVE IntToStr(_)
IntToStr(n) ==
    IF n < 10 THEN <<Digits[n + 1]>>
    ELSE IntToStr(n \div 10) \o <<Digits[(n % 10) + 1]>>

\* The TLA+ string spelled by a sequence of characters.
RECURSIVE Str(_)
Str(s) == IF s = <<>> THEN "" ELSE Head(s) \o Str(Tail(s))

(***************************************************************************)
(* String literals of the program, spelled as character sequences.         *)
(***************************************************************************)
S_rung == <<"r","u","n","g">>

S_network == <<"n","e","t","w","o","r","k">>

OP_LD == <<"L","D">>

OP_LDP == <<"L","D","P">>

OP_LDN == <<"L","D","N">>

OP_AND == <<"A","N","D">>

OP_ANDP == <<"A","N","D","P">>

OP_ANDN == <<"A","N","D","N">>

OP_OR == <<"O","R">>

OP_ORP == <<"O","R","P">>

OP_ORN == <<"O","R","N">>

OP_OUT == <<"O","U","T">>

OP_OUTNOT == <<"O","U","T","N","O","T">>

OP_SET == <<"S","E","T">>

OP_RST == <<"R","S","T">>

S_NOT == <<"N","O","T"," ">>

S_AND == <<"A","N","D"," ">>

S_AND_NOT == <<"A","N","D"," ","N","O","T"," ">>

S_OR == <<"O","R"," ">>

S_OR_NOT == <<"O","R"," ","N","O","T"," ">>

S_RungOpen == <<"(","*"," ","R","u","n","g"," ">>

S_CommentClose == <<" ","*",")">>

S_NoCoil == <<":"," ","n","o"," ","c","o","i","l"," ","f","o","u","n","d"," ","*",")">>

S_Assign == <<" ",":","="," ">>

S_AssignNot == <<" ",":","="," ","N","O","T"," ","(">>

S_Semi == <<";">>

S_CloseSemi == <<")",";">>

S_IF == <<"I","F"," ">>

S_THEN == <<" ","T","H","E","N"," ">>

S_SetTail == <<" ",":","="," ","T","R","U","E",";"," ","E","N","D","_","I","F",";">>

S_RstTail == <<" ",":","="," ","F","A","L","S","E",";"," ","E","N","D","_","I","F",";">>

S_Unsupported == <<"(","*"," ","U","n","s","u","p","p","o","r","t","e","d"," ",
                   "c","o","i","l"," ","o","p","c","o","d","e"," ">>

(***************************************************************************)
(* split_rungs: the line classification and the flush of the buffer.       *)
(***************************************************************************)
\* "if not line" (line 46)
IsBlank(line) == line = <<>>

\* IsBoundary matching the markers in lowercase only.
IsBoundaryCaseSensitive(line) ==
    startswith(line, S_rung) \/ startswith(line, S_network)

\* line.lower().startswith(("rung", "network")) (line 51)
IsBoundary(line) ==
    startswith(lower(line), S_rung) \/ startswith(lower(line), S_network)

\* FlushedRungs without the test of the buffer.
FlushedRungsUntested(rs, cur) == Append(rs, cur)

\* "if current: rungs.append(current)" (lines 47-48, 52-53, 57-58)
FlushedRungs(rs, cur) == IF cur # <<>> THEN Append(rs, cur) ELSE rs

\* SplitStep buffering the raw line instead of the stripped one.
SplitStepRawLine(st, raw_line) ==
    LET line == strip(raw_line) IN
    IF IsBlank(line) \/ IsBoundary(line)
    THEN [rungs |-> FlushedRungs(st.rungs, st.current), current |-> <<>>]
    ELSE [rungs |-> st.rungs, current |-> Append(st.current, raw_line)]

\* Buffered keeping the latest line alone.
BufferedLatest(cur, line) == <<line>>

\* current.append(line) (line 56)
Buffered(cur, line) == Append(cur, line)

\* One iteration of the loop of split_rungs over the raw line, as a function
\* of the state <<rungs, current>>.
SplitStep(st, raw_line) ==
    LET line == strip(raw_line) IN
    IF IsBlank(line) \/ IsBoundary(line)
    THEN [rungs |-> FlushedRungs(st.rungs, st.current), current |-> <<>>]
    ELSE [rungs |-> st.rungs, current |-> Buffered(st.current, line)]

RECURSIVE SplitFold(_, _)
SplitFold(st, ls) ==
    IF ls = <<>> THEN st ELSE SplitFold(SplitStep(st, Head(ls)), Tail(ls))

\* split_rungs(text)
split_rungs(t) ==
    LET st == SplitFold([rungs |-> <<>>, current |-> <<>>], splitlines(t))
    IN  FlushedRungs(st.rungs, st.current)

(***************************************************************************)
(* _parse_instruction                                                      *)
(***************************************************************************)
\* The first whitespace-delimited token of s (s has no leading whitespace).
FirstToken(s) ==
    IF \A k \in 1..Len(s) : ~IsSpace(s[k]) THEN s
    ELSE SubSeq(s, 1, (CHOOSE k \in 1..Len(s) :
                           IsSpace(s[k]) /\ \A m \in 1..(k - 1) : ~IsSpace(s[m])) - 1)

\* instr.split(maxsplit=1): at most two parts; leading whitespace is skipped,
\* the whitespace run after the first token is dropped and the remainder is
\* kept as it is (absent when nothing but whitespace follows).
split1(instr) ==
    LET s    == lstrip(instr)
        tok  == FirstToken(s)
        rest == lstrip(SubSeq(s, Len(tok) + 1, Len(s)))
    IN  IF s = <<>> THEN <<>>
        ELSE IF rest = <<>> THEN <<tok>>
        ELSE <<tok, rest>>

\* "if not parts" (line 65)
NoParts(parts) == parts = <<>>

\* HasOperand taking the second part for granted.
HasOperandUntested(parts) == TRUE

\* "if len(parts) > 1" (line 68)
HasOperand(parts) == Len(parts) > 1

\* A subscript outside the list raises IndexError: raised is TRUE when the
\* function does not return.
_parse_instruction(instr) ==
    LET parts == split1(instr) IN
    IF NoParts(parts) THEN [op |-> <<>>, operand |-> <<>>, raised |-> FALSE]
    ELSE IF Len(parts) < 1 THEN [op |-> <<>>, operand |-> <<>>, raised |-> TRUE]
    ELSE IF ~HasOperand(parts)
         THEN [op |-> upper(parts[1]), operand |-> <<>>, raised |-> FALSE]
    ELSE IF Len(parts) < 2
         THEN [op |-> upper(parts[1]), operand |-> <<>>, raised |-> TRUE]
    ELSE [op |-> upper(parts[1]), operand |-> strip(parts[2]), raised |-> FALSE]

(***************************************************************************)
(* rung_to_expression                                                      *)
(***************************************************************************)
\* coil_assignment is None or one (op, operand) pair: a sequence of at most
\* one record.
None == <<>>

LD_FAMILY == {OP_LD, OP_LDP, OP_LDN}

AND_FAMILY == {OP_AND, OP_ANDP, OP_ANDN}

OR_FAMILY == {OP_OR, OP_ORP, OP_ORN}

\* COIL_FAMILY with an opcode that rung_to_st has no statement for.
COIL_FAMILY_Wider == {OP_OUT, OP_SET, OP_RST, OP_OUTNOT, <<"X","Y","Z">>}

COIL_FAMILY == {OP_OUT, OP_SET, OP_RST, OP_OUTNOT}

\* The state of the builder at entry (lines 74-75).
ExprInit == [expr_parts |-> <<>>, coil_assignment |-> None]

\* FreshLocals going on with what the earlier call left behind.
FreshLocalsStale(prev) == prev

\* The locals of a call of rung_to_expression are bound afresh, whatever an
\* earlier call left behind in prev (lines 74-75).
FreshLocals(prev) == ExprInit

\* Fragment leaving out the words before the operand.
FragmentBare(op, operand) == operand

\* The fragment an instruction contributes (lines 79-93).
Fragment(op, operand) ==
    IF op = OP_LDN THEN S_NOT \o operand
    ELSE IF op \in LD_FAMILY THEN operand
    ELSE IF op = OP_ANDN THEN S_AND_NOT \o operand
    ELSE IF op \in AND_FAMILY THEN S_AND \o operand
    ELSE IF op = OP_ORN THEN S_OR_NOT \o operand
    ELSE S_OR \o operand

\* LoadParts appending the fragment instead of starting the list again.
LoadPartsAppended(parts, frag) == Append(parts, frag)

\* expr_parts after an LD-family instruction (lines 80-83).
LoadParts(parts, frag) == <<frag>>

\* RecordCoil keeping the first coil seen.
RecordCoilFirst(old, op, operand) ==
    IF old # None THEN old ELSE <<[op |-> op, operand |-> operand]>>

\* coil_assignment after a coil instruction (line 95).
RecordCoil(old, op, operand) == <<[op |-> op, operand |-> operand]>>

\* Ignored starting the builder again.
IgnoredCleared(st) == ExprInit

\* An opcode that no branch takes changes nothing (line 96).
Ignored(st) == st

\* One iteration of the loop of rung_to_expression (lines 77-96).
ExprStep(st, instr) ==
    LET p == _parse_instruction(instr) IN
    IF p.op \in LD_FAMILY
    THEN [st EXCEPT !.expr_parts = LoadParts(@, Fragment(p.op, p.operand))]
    ELSE IF p.op \in AND_FAMILY \/ p.op \in OR_FAMILY
    THEN [st EXCEPT !.expr_parts = Append(@, Fragment(p.op, p.operand))]
    ELSE IF p.op \in COIL_FAMILY
    THEN [st EXCEPT !.coil_assignment = RecordCoil(@, p.op, p.operand)]
    ELSE Ignored(st)

RECURSIVE ExprFold(_, _)
ExprFold(st, rung) ==
    IF rung = <<>> THEN st ELSE ExprFold(ExprStep(st, Head(rung)), Tail(rung))

\* JoinExpr putting nothing between the fragments.
JoinExprNoSpace(parts) == join(<<>>, parts)

\* " ".join(expr_parts) (line 98)
JoinExpr(parts) == join(<<" ">>, parts)

\* rung_to_expression(rung): the pair (expr, coil_assignment)
rung_to_expression(rung) ==
    LET st == ExprFold(ExprInit, rung)
    IN  [expr |-> JoinExpr(st.expr_parts), coil_assign |-> st.coil_assignment]

(***************************************************************************)
(* rung_to_st                                                              *)
(***************************************************************************)
\* CoilStatement without the parentheses of the OUTNOT form.
CoilStatementNoParens(opcode, coil, expr) ==
    IF opcode = OP_OUT THEN coil \o S_Assign \o expr \o S_Semi
    ELSE IF opcode = OP_OUTNOT THEN coil \o S_Assign \o S_NOT \o expr \o S_Semi
    ELSE IF opcode = OP_SET THEN S_IF \o expr \o S_THEN \o coil \o S_SetTail
    ELSE IF opcode = OP_RST THEN S_IF \o expr \o S_THEN \o coil \o S_RstTail
    ELSE S_Unsupported \o opcode \o S_CommentClose

\* The statement line for a coil (lines 109-118).
CoilStatement(opcode, coil, expr) ==
    IF opcode = OP_OUT THEN coil \o S_Assign \o expr \o S_Semi
    ELSE IF opcode = OP_OUTNOT THEN coil \o S_AssignNot \o expr \o S_CloseSemi
    ELSE IF opcode = OP_SET THEN S_IF \o expr \o S_THEN \o coil \o S_SetTail
    ELSE IF opcode = OP_RST THEN S_IF \o expr \o S_THEN \o coil \o S_RstTail
    ELSE S_Unsupported \o opcode \o S_CommentClose

\* BlockLines taking a coil without operand for no coil.
BlockLinesOperandTested(expr, coil_assign, index) ==
    IF coil_assign = None \/ coil_assign[1].operand = <<>>
    THEN <<S_RungOpen \o IntToStr(index) \o S_NoCoil>>
    ELSE <<S_RungOpen \o IntToStr(index) \o S_CommentClose,
           CoilStatement(coil_assign[1].op, coil_assign[1].operand, expr)>>

\* The lines of the block, from the builder's result (lines 104-118).
BlockLines(expr, coil_assign, index) ==
    IF coil_assign = None
    THEN <<S_RungOpen \o IntToStr(index) \o S_NoCoil>>
    ELSE <<S_RungOpen \o IntToStr(index) \o S_CommentClose,
           CoilStatement(coil_assign[1].op, coil_assign[1].operand, expr)>>

\* The block text (lines 105, 119).
BlockText(expr, coil_assign, index) ==
    join(<<NL>>, BlockLines(expr, coil_assign, index))

rung_to_st(rung, index) ==
    LET r == rung_to_expression(rung)
    IN  BlockText(r.expr, r.coil_assign, index)

(***************************************************************************)
(* convert_text_to_st                                                      *)
(***************************************************************************)
\* AppendBlock without the empty entry after the block.
AppendBlockOnly(out_lines, st) == Append(out_lines, st)

\* st_lines.append(st); st_lines.append("") (lines 127-128)
AppendBlock(out_lines, st) == out_lines \o <<st, <<>>>>

\* "\n".join(st_lines) (line 129)
JoinLines(out_lines) == join(<<NL>>, out_lines)

RECURSIVE BlocksFrom(_, _)
BlocksFrom(rs, i) ==
    IF rs = <<>> THEN <<>>
    ELSE AppendBlock(<<>>, rung_to_st(Head(rs), i)) \o BlocksFrom(Tail(rs), i + 1)

convert_text_to_st(t) == JoinLines(BlocksFrom(split_rungs(t), 1))

(***************************************************************************)
(* The inputs: texts of up to MaxLines lines over a vocabulary of blank    *)
(* lines, boundary markers and content lines; single-rung texts of up to   *)
(* MaxInstr instructions; and every two-instruction rung over the whole    *)
(* instruction vocabulary.                                                 *)
(***************************************************************************)
L_Empty == <<>>

L_Spaces == <<" ", "\t">>

L_Rung2 == <<"R","u","n","g"," ","2">>

L_NETWORK == <<" ","N","E","T","W","O","R","K">>

L_LD_X0 == <<"L","D"," ","X","0">>

L_out_Y0 == <<" ","o","u","t"," "," ","Y","0"," ">>

L_ldn_X1 == <<"l","d","n"," ","X","1">>

L_AND_X1 == <<"A","N","D"," ","X","1">>

L_ORN_X0 == <<"O","R","N"," ","X","0">>

L_OUT_Y0 == <<"O","U","T"," ","Y","0">>

L_OUTNOT_Y1 == <<"O","U","T","N","O","T"," ","Y","1">>

L_SET_Y1 == <<"S","E","T"," ","Y","1">>

L_RST_Y0 == <<"R","S","T"," ","Y","0">>

L_OUT == <<"O","U","T">>

L_LD == <<"L","D">>

L_XYZ_X1 == <<"X","Y","Z"," ","X","1">>

L_Out_y0 == <<"O","u","t"," ","y","0">>

SegLines == {L_Empty, L_Spaces, L_Rung2, L_NETWORK, L_LD_X0, L_out_Y0}

InstrLines == {L_LD_X0, L_ldn_X1, L_AND_X1, L_ORN_X0, L_OUT_Y0, L_SET_Y1,
               L_XYZ_X1}

AllInstrLines ==
    InstrLines \cup {L_OUTNOT_Y1, L_RST_Y0, L_OUT, L_LD, L_Out_y0}

SeqsUpTo(S, n) == UNION {[1..k -> S] : k \in 0..n}

Texts ==
    {join(<<NL>>, ls) : ls \in SeqsUpTo(SegLines, MaxLines)}
    \cup {join(<<NL>>, ls) : ls \in SeqsUpTo(InstrLines, MaxInstr)}
    \cup {join(<<NL>>, ls) : ls \in [1..2 -> AllInstrLines]}

(***************************************************************************)
(* The program as a state machine.                                         *)
(***************************************************************************)
Init ==
    /\ pdf_texts = <<>>
    /\ all_text = <<>>
    /\ text \in Texts
    /\ pc = "split_rungs"
    /\ lines = splitlines(text)
    /\ li = 1
    /\ current = <<>>
    /\ rungs = <<>>
    /\ idx = 0
    /\ ri = 0
    /\ expr_parts = <<>>
    /\ coil_assignment = None
    /\ st_lines = <<>>
    /\ result = <<>>
    /\ work = <<>>
    /\ blocks = <<>>

\* split_rungs: one iteration of the loop (lines 44-56).
SplitLine ==
    LET st == SplitStep([rungs |-> rungs, current |-> current], lines[li]) IN
    /\ rungs' = st.rungs
    /\ current' = st.current
    /\ li' = li + 1
    /\ UNCHANGED <<pdf_texts, all_text, text, pc, lines, idx, ri, expr_parts,
                   coil_assignment, st_lines, result, work, blocks>>

AtLine == pc = "split_rungs" /\ li <= Len(lines)

\* lines 46-50
AtBlank == AtLine /\ IsBlank(strip(lines[li]))

SplitBlank == AtBlank /\ SplitLine

\* lines 51-55
AtBoundary ==
    AtLine /\ ~IsBlank(strip(lines[li])) /\ IsBoundary(strip(lines[li]))

SplitBoundary == AtBoundary /\ SplitLine

\* line 56
AtContent ==
    AtLine /\ ~IsBlank(strip(lines[li])) /\ ~IsBoundary(strip(lines[li]))

SplitContent == AtContent /\ SplitLine

\* End of input (lines 57-59); convert_text_to_st goes on with its loop.
AtEndOfInput == pc = "split_rungs" /\ li > Len(lines)

SplitEnd ==
    /\ AtEndOfInput
    /\ rungs' = FlushedRungs(rungs, current)
    /\ pc' = "for_rung"
    /\ UNCHANGED <<pdf_texts, all_text, text, lines, li, current, idx, ri,
                   expr_parts, coil_assignment, st_lines, result, work,
                   blocks>>

\* The next rung of enumerate(rungs, 1) and the entry of rung_to_expression
\* (lines 125-126, 103, 74-75).
MoreRungs == pc = "for_rung" /\ idx < Len(rungs)

NextRung ==
    /\ MoreRungs
    /\ idx' = idx + 1
    /\ ri' = 1
    /\ LET loc == FreshLocals([expr_parts |-> expr_parts,
                               coil_assignment |-> coil_assignment])
       IN  /\ expr_parts' = loc.expr_parts
           /\ coil_assignment' = loc.coil_assignment
    /\ pc' = "rung_to_expression"
    /\ UNCHANGED <<pdf_texts, all_text, text, lines, li, current, rungs,
                   st_lines, result, work, blocks>>

\* rung_to_expression: one iteration of the loop (lines 77-95); an exception
\* of _parse_instruction ends the program.
ExprInstr ==
    LET instr  == rungs[idx][ri]
        raised == _parse_instruction(instr).raised
        st     == ExprStep([expr_parts |-> expr_parts,
                            coil_assignment |-> coil_assignment], instr)
    IN  /\ pc' = IF raised THEN "error" ELSE pc
        /\ expr_parts' = IF raised THEN expr_parts ELSE st.expr_parts
        /\ coil_assignment' =
               IF raised THEN coil_assignment ELSE st.coil_assignment
        /\ ri' = IF raised THEN ri ELSE ri + 1
        /\ UNCHANGED <<pdf_texts, all_text, text, lines, li, current, rungs,
                       idx, st_lines, result, work, blocks>>

InLoop == pc = "rung_to_expression" /\ ri <= Len(rungs[idx])

OpAt == _parse_instruction(rungs[idx][ri]).op

\* lines 79-83
AtLoad == InLoop /\ OpAt \in LD_FAMILY

ExprLoad == AtLoad /\ ExprInstr

\* lines 84-93
AtCombine == InLoop /\ OpAt \in AND_FAMILY \cup OR_FAMILY

ExprCombine == AtCombine /\ ExprInstr

\* lines 94-95
AtCoil == InLoop /\ OpAt \in COIL_FAMILY

ExprCoil == AtCoil /\ ExprInstr

\* line 96: any other opcode
AtOther ==
    /\ InLoop
    /\ OpAt \notin LD_FAMILY \cup AND_FAMILY \cup OR_FAMILY \cup COIL_FAMILY

ExprIgnore == AtOther /\ ExprInstr

\* The end of the rung: rung_to_expression returns, rung_to_st builds the
\* block and convert_text_to_st appends it (lines 98-99, 104-119, 127-128).
AtEndOfRung == pc = "rung_to_expression" /\ ri > Len(rungs[idx])

EmitBlock ==
    /\ AtEndOfRung
    /\ st_lines' = AppendBlock(st_lines,
                       BlockText(JoinExpr(expr_parts), coil_assignment, idx))
    /\ pc' = "for_rung"
    /\ UNCHANGED <<pdf_texts, all_text, text, lines, li, current, rungs, idx,
                   ri, expr_parts, coil_assignment, result, work, blocks>>

\* line 129
NoMoreRungs == pc = "for_rung" /\ idx = Len(rungs)

Return ==
    /\ NoMoreRungs
    /\ result' = JoinLines(st_lines)
    /\ pc' = "done"
    /\ UNCHANGED <<pdf_texts, all_text, text, lines, li, current, rungs, idx,
                   ri, expr_parts, coil_assignment, st_lines, work, blocks>>

Next ==
    \/ SplitBlank
    \/ SplitBoundary
    \/ SplitContent
    \/ SplitEnd
    \/ NextRung
    \/ ExprLoad
    \/ ExprCombine
    \/ ExprCoil
    \/ ExprIgnore
    \/ EmitBlock
    \/ Return

Spec == Init /\ [][Next]_vars

(***************************************************************************)
(* The same translation with one worker per rung: the workers run          *)
(* rung_to_expression and rung_to_st on their rungs in any order and       *)
(* interleaving, and the blocks are put back in index order.               *)
(***************************************************************************)
\* What the call started last left behind, for the call that starts now.
LeftBehind ==
    IF DOMAIN work = {} THEN ExprInit
    ELSE LET j == CHOOSE m \in DOMAIN work : \A n \in DOMAIN work : n <= m
         IN  [expr_parts |-> work[j].expr_parts,
              coil_assignment |-> work[j].coil_assignment]

\* Worker k enters rung_to_expression (lines 126, 103, 74-75).
ParStart(k) ==
    /\ pc = "for_rung"
    /\ k \in 1..Len(rungs)
    /\ k \notin DOMAIN work
    /\ LET loc == FreshLocals(LeftBehind)
       IN  work' = (k :> [ri |-> 1, expr_parts |-> loc.expr_parts,
                          coil_assignment |-> loc.coil_assignment]) @@ work
    /\ UNCHANGED <<pdf_texts, all_text, text, pc, lines, li, current, rungs,
                   idx, ri, expr_parts, coil_assignment, st_lines, result,
                   blocks>>

\* Worker k runs one iteration of the loop of rung_to_expression
\* (lines 77-95).
ParStep(k) ==
    /\ pc = "for_rung"
    /\ k \in DOMAIN work
    /\ work[k].ri <= Len(rungs[k])
    /\ LET instr == rungs[k][work[k].ri]
           st    == ExprStep([expr_parts |-> work[k].expr_parts,
                              coil_assignment |-> work[k].coil_assignment],
                             instr)
       IN  IF _parse_instruction(instr).raised
           THEN pc' = "error" /\ work' = work
           ELSE /\ pc' = pc
                /\ work' = [work EXCEPT ![k] =
                               [ri |-> @.ri + 1, expr_parts |-> st.expr_parts,
                                coil_assignment |-> st.coil_assignment]]
    /\ UNCHANGED <<pdf_texts, all_text, text, lines, li, current, rungs, idx,
                   ri, expr_parts, coil_assignment, st_lines, result, blocks>>

\* Worker k builds its block (lines 98-99, 104-119).
ParFinish(k) ==
    /\ pc = "for_rung"
    /\ k \in DOMAIN work
    /\ k \notin DOMAIN blocks
    /\ work[k].ri > Len(rungs[k])
    /\ blocks' = (k :> BlockText(JoinExpr(work[k].expr_parts),
                                 work[k].coil_assignment, k)) @@ blocks
    /\ UNCHANGED <<pdf_texts, all_text, text, pc, lines, li, current, rungs,
                   idx, ri, expr_parts, coil_assignment, st_lines, result,
                   work>>

\* The blocks b[1..n] appended in index order (lines 127-128).
RECURSIVE InIndexOrder(_, _)
InIndexOrder(b, n) ==
    IF n = 0 THEN <<>> ELSE AppendBlock(InIndexOrder(b, n - 1), b[n])

\* All blocks are there: they are put in index order and joined
\* (lines 127-129).
ParReturn ==
    /\ pc = "for_rung"
    /\ DOMAIN blocks = 1..Len(rungs)
    /\ st_lines' = InIndexOrder(blocks, Len(rungs))
    /\ result' = JoinLines(st_lines')
    /\ pc' = "done"
    /\ UNCHANGED <<pdf_texts, all_text, text, lines, li, current, rungs, idx,
                   ri, expr_parts, coil_assignment, work, blocks>>

NextPar ==
    \/ SplitBlank
    \/ SplitBoundary
    \/ SplitContent
    \/ SplitEnd
    \/ \E k \in 1..Len(rungs) : ParStart(k)
    \/ \E k \in 1..Len(rungs) : ParStep(k)
    \/ \E k \in 1..Len(rungs) : ParFinish(k)
    \/ ParReturn

SpecPar == Init /\ [][NextPar]_vars

(***************************************************************************)
(* convert_pdfs_to_st: the texts that extract_text gives for the pdfs are  *)
(* joined with a newline and the result is translated.  The pdfs are up to *)
(* MaxSources sources over a vocabulary of texts: an empty one, texts that *)
(* end in a content line or in a newline, and texts that begin with a      *)
(* content line or with a boundary marker.                                 *)
(***************************************************************************)
\* "\n".join(all_text) (line 137)
JoinSources(texts) == join(<<NL>>, texts)

convert_pdfs_to_st(texts) == convert_text_to_st(JoinSources(texts))

T_Empty == <<>>

T_LD == L_LD_X0

T_OUT == L_OUT_Y0

T_LD_Newline == L_LD_X0 \o <<NL>>

T_Rung_AND_OUT == join(<<NL>>, <<L_Rung2, L_AND_X1, L_OUT_Y0>>)

T_LD_XYZ == join(<<NL>>, <<L_LD_X0, L_XYZ_X1>>)

T_OUT_Blank_LD == join(<<NL>>, <<L_OUT_Y0, L_Empty, L_LD_X0>>)

SourceTexts ==
    {T_Empty, T_LD, T_OUT, T_LD_Newline, T_Rung_AND_OUT, T_LD_XYZ,
     T_OUT_Blank_LD}

InitPdfs ==
    /\ pdf_texts \in UNION {[1..n -> SourceTexts] : n \in 1..MaxSources}
    /\ all_text = <<>>
    /\ text = <<>>
    /\ pc = "convert_pdfs_to_st"
    /\ lines = <<>>
    /\ li = 1
    /\ current = <<>>
    /\ rungs = <<>>
    /\ idx = 0
    /\ ri = 0
    /\ expr_parts = <<>>
    /\ coil_assignment = None
    /\ st_lines = <<>>
    /\ result = <<>>
    /\ work = <<>>
    /\ blocks = <<>>

\* One iteration of the loop over the pdfs (lines 134-136).
ExtractText ==
    /\ pc = "convert_pdfs_to_st"
    /\ Len(all_text) < Len(pdf_texts)
    /\ all_text' = Append(all_text, pdf_texts[Len(all_text) + 1])
    /\ UNCHANGED <<pdf_texts, text, pc, lines, li, current, rungs, idx, ri,
                   expr_parts, coil_assignment, st_lines, result, work,
                   blocks>>

\* The call of convert_text_to_st on the joined texts (line 137) and the
\* entry of split_rungs (lines 123, 42-44).
CallConvert ==
    /\ pc = "convert_pdfs_to_st"
    /\ Len(all_text) = Len(pdf_texts)
    /\ text' = JoinSources(all_text)
    /\ lines' = splitlines(text')
    /\ li' = 1
    /\ current' = <<>>
    /\ rungs' = <<>>
    /\ pc' = "split_rungs"
    /\ UNCHANGED <<pdf_texts, all_text, idx, ri, expr_parts, coil_assignment,
                   st_lines, result, work, blocks>>

NextPdfs ==
    \/ ExtractText
    \/ CallConvert
    \/ Next

SpecPdfs == InitPdfs /\ [][NextPdfs]_vars

TypeOK ==
    /\ pc \in {"convert_pdfs_to_st", "split_rungs", "for_rung",
              "rung_to_expression", "done", "error"}
    /\ Len(all_text) <= Len(pdf_texts)
    /\ li \in 1..(Len(lines) + 1)
    /\ idx \in 0..Len(rungs)
    /\ Len(coil_assignment) <= 1

(***************************************************************************)
(* Vocabulary of the properties.                                           *)
(***************************************************************************)
\* The blocks appended to st_lines so far: every block is followed by one
\* empty entry.
NumBlocks == Len(st_lines) \div 2

Block(i) == st_lines[2 * i - 1]

\* Whether the instruction line carries one of the four coil opcodes.
IsCoilLine(instr) ==
    Str(_parse_instruction(instr).op) \in {"OUT", "OUTNOT", "SET", "RST"}

HasCoil(rung) == \E k \in 1..Len(rung) : IsCoilLine(rung[k])

\* The last coil instruction of a rung that has one: the line, and parsed.
LastCoilLine(rung) ==
    rung[CHOOSE j \in 1..Len(rung) :
             IsCoilLine(rung[j]) /\ \A m \in (j + 1)..Len(rung) : ~IsCoilLine(rung[m])]

LastCoil(rung) == _parse_instruction(LastCoilLine(rung))

\* The rung without its coil instructions.
RECURSIVE NonCoil(_)
NonCoil(rung) ==
    IF rung = <<>> THEN <<>>
    ELSE IF IsCoilLine(Head(rung)) THEN NonCoil(Tail(rung))
    ELSE <<Head(rung)>> \o NonCoil(Tail(rung))

\* The first n characters of s, in lowercase.
LowerPrefix(s, n) == Str(lower(SubSeq(s, 1, IF Len(s) < n THEN Len(s) ELSE n)))

IsMarker(s) == LowerPrefix(s, 4) = "rung" \/ LowerPrefix(s, 7) = "network"

\* A raw line of the input that is a content line: it is not blank and not
\* a boundary marker.
IsContentRaw(raw) ==
    /\ \E k \in 1..Len(raw) : ~IsSpace(raw[k])
    /\ ~IsMarker(strip(raw))

\* Whether the rung has an LD-family instruction, and the last one, parsed.
IsLoadLine(instr) == Str(_parse_instruction(instr).op) \in {"LD", "LDP", "LDN"}

HasLoad(rung) == \E k \in 1..Len(rung) : IsLoadLine(rung[k])

LastLoad(rung) ==
    _parse_instruction(
        rung[CHOOSE j \in 1..Len(rung) :
                 IsLoadLine(rung[j]) /\ \A m \in (j + 1)..Len(rung) : ~IsLoadLine(rung[m])])

\* Whether the expression begins with a combinator.
StartsWithCombinator(e) ==
    \/ Str(SubSeq(e, 1, IF Len(e) < 4 THEN Len(e) ELSE 4)) = "AND "
    \/ Str(SubSeq(e, 1, IF Len(e) < 3 THEN Len(e) ELSE 3)) = "OR "

\* rung_to_expression has read the whole rung and returns a coil: rung_to_st
\* generates a statement.
StatementGenerated ==
    /\ pc = "rung_to_expression"
    /\ ri > Len(rungs[idx])
    /\ coil_assignment # None

\* The guard of some step of the program holds (each step assigns every
\* variable, so it can be taken when its guard holds).
CanStep ==
    \/ AtBlank \/ AtBoundary \/ AtContent \/ AtEndOfInput
    \/ MoreRungs \/ NoMoreRungs
    \/ AtLoad \/ AtCombine \/ AtCoil \/ AtOther \/ AtEndOfRung

\* The steps of the translation of the rungs after rung i: for each the
\* entry, one step for each instruction, and the block.
RECURSIVE StepsOfRungsAfter(_)
StepsOfRungsAfter(i) ==
    IF i >= Len(rungs) THEN 0
    ELSE Len(rungs[i + 1]) + 2 + StepsOfRungsAfter(i + 1)

\* The steps the program has left, counted for the longest translation the
\* lines not yet read may need.
StepsLeft ==
    CASE pc = "split_rungs" ->
             (Len(lines) + 1 - li) + 1 + 3 * Len(lines) + 1
      [] pc = "for_rung" -> StepsOfRungsAfter(idx) + 1
      [] pc = "rung_to_expression" ->
             (Len(rungs[idx]) + 1 - ri) + 1 + StepsOfRungsAfter(idx) + 1
      [] OTHER -> 0

\* The maximal runs of consecutive content lines among the first n lines.
RunStarts(n) ==
    {k \in 1..n : IsContentRaw(lines[k]) /\ (k = 1 \/ ~IsContentRaw(lines[k - 1]))}

\* Strings b[1], ..., b[n] with one blank line between consecutive ones.
RECURSIVE BlankLineSeparated(_)
BlankLineSeparated(bs) ==
    IF bs = <<>> THEN ""
    ELSE IF Len(bs) = 1 THEN Str(bs[1])
    ELSE Str(bs[1]) \o "\n\n" \o BlankLineSeparated(Tail(bs))

\* The blocks of the segmented rungs of the input, in rung order, indexed
\* from 1.
BlocksOfInput ==
    LET rs == split_rungs(text)
    IN  [i \in 1..Len(rs) |-> rung_to_st(rs[i], i)]

ExampleRung == <<L_LD_X0, L_AND_X1, L_OUT_Y0>>

(***************************************************************************)
(* C1 as stated: the value returned is exactly the blocks of the segmented *)
(* rungs, in rung order and indexed from 1, with one blank line between    *)
(* consecutive blocks, nothing before the first and nothing after the      *)
(* last; the rung [LD X0, AND X1, OUT Y0] alone gives exactly the two      *)
(* lines "(* Rung 1 *)" and "Y0 := X0 AND X1;".                            *)
(***************************************************************************)
C1_NothingAfterLastBlock ==
    pc = "done" =>
        /\ Str(result) = BlankLineSeparated(BlocksOfInput)
        /\ (text = join(<<NL>>, ExampleRung)
               => Str(result) = "(* Rung 1 *)\nY0 := X0 AND X1;")

(***************************************************************************)
(* C1, amended: the value returned is the blocks of the segmented rungs,   *)
(* in rung order and indexed from 1, with one blank line between           *)
(* consecutive blocks and nothing before the first; when there is at least *)
(* one block, one newline follows the last block, so the rung              *)
(* [LD X0, AND X1, OUT Y0] alone gives "(* Rung 1 *)", "Y0 := X0 AND X1;"  *)
(* and a final newline.                                                    *)
(***************************************************************************)
C1_BlocksThenNewline ==
    pc = "done" =>
        /\ Str(result) = BlankLineSeparated(BlocksOfInput)
                           \o (IF Len(BlocksOfInput) = 0 THEN "" ELSE "\n")
        /\ (text = join(<<NL>>, ExampleRung)
               => Str(result) = "(* Rung 1 *)\nY0 := X0 AND X1;\n")

C1_Witness ==
    /\ pc = "done"
    /\ Len(rungs) = 2
    /\ Str(result) = "(* Rung 1 *)\nY0 := ;\n\n(* Rung 2: no coil found *)\n"

(***************************************************************************)
(* C2: for every rung that has a coil instruction, with (op, operand) its  *)
(* last coil instruction and expr the built expression, the block is the   *)
(* line "(* Rung {index} *)" followed by "{operand} := {expr};" for OUT,   *)
(* "{operand} := NOT ({expr});" for OUTNOT, "IF {expr} THEN {operand} :=   *)
(* TRUE; END_IF;" for SET and "IF {expr} THEN {operand} := FALSE; END_IF;" *)
(* for RST.                                                                *)
(***************************************************************************)
C2_StatementForms ==
    \A i \in 1..NumBlocks :
        (pc = "for_rung" /\ HasCoil(rungs[i])) =>
            LET c       == LastCoil(rungs[i])
                op      == Str(c.op)
                operand == Str(c.operand)
                expr    == Str(rung_to_expression(rungs[i]).expr)
                stmt    == CASE op = "OUT"    -> operand \o " := " \o expr \o ";"
                             [] op = "OUTNOT" -> operand \o " := NOT (" \o expr \o ");"
                             [] op = "SET"    -> "IF " \o expr \o " THEN " \o operand
                                                     \o " := TRUE; END_IF;"
                             [] op = "RST"    -> "IF " \o expr \o " THEN " \o operand
                                                     \o " := FALSE; END_IF;"
            IN  Str(Block(i)) = "(* Rung " \o Str(IntToStr(i)) \o " *)\n" \o stmt

C2_Witness ==
    /\ NumBlocks = 1
    /\ rungs[1] = <<L_ldn_X1, L_ORN_X0, L_SET_Y1>>
    /\ Str(Block(1)) = "(* Rung 1 *)\nIF NOT X1 OR NOT X0 THEN Y1 := TRUE; END_IF;"

(***************************************************************************)
(* C3: a rung without any instruction of opcode OUT, OUTNOT, SET or RST    *)
(* translates to the single line "(* Rung {index}: no coil found *)" and   *)
(* nothing else; a rung with such an instruction never yields that         *)
(* comment, whatever the operand, the empty one included.                  *)
(***************************************************************************)
C3_NoCoilComment ==
    pc = "for_rung" =>
        \A i \in 1..NumBlocks :
            LET comment == "(* Rung " \o Str(IntToStr(i)) \o ": no coil found *)"
            IN  IF HasCoil(rungs[i])
                THEN Str(Block(i)) # comment
                ELSE Str(Block(i)) = comment

C3_Witness ==
    /\ pc = "done"
    /\ rungs = <<<<L_LD_X0, L_AND_X1>>>>
    /\ Str(result) = "(* Rung 1: no coil found *)\n"

(***************************************************************************)
(* C4: at every step of the builder at most one coil assignment is kept    *)
(* and it is the coil instruction seen last; coil instructions leave the   *)
(* fragment list alone, so the fragments are those of the same             *)
(* instructions without the coil instructions, wherever these stand; and   *)
(* the block of a rung with coil instructions is the block of the rung     *)
(* with its coil instructions replaced by the last one alone.              *)
(***************************************************************************)
C4_LastCoilWins ==
    /\ pc = "rung_to_expression" =>
           LET seen == SubSeq(rungs[idx], 1, ri - 1) IN
           /\ Len(coil_assignment) <= 1
           /\ IF HasCoil(seen)
              THEN /\ coil_assignment # None
                   /\ coil_assignment[1].op = LastCoil(seen).op
                   /\ coil_assignment[1].operand = LastCoil(seen).operand
              ELSE coil_assignment = None
           /\ expr_parts = ExprFold(ExprInit, NonCoil(seen)).expr_parts
    /\ \A i \in 1..NumBlocks :
           (pc = "for_rung" /\ HasCoil(rungs[i])) =>
               Block(i) = rung_to_st(NonCoil(rungs[i]) \o <<LastCoilLine(rungs[i])>>, i)

C4_Witness ==
    /\ pc = "for_rung"
    /\ rungs = <<<<L_OUT_Y0, L_LD_X0, L_SET_Y1>>>>
    /\ coil_assignment = <<[op |-> OP_SET, operand |-> <<"Y","1">>]>>
    /\ NumBlocks = 1
    /\ Str(Block(1)) = "(* Rung 1 *)\nIF X0 THEN Y1 := TRUE; END_IF;"

(***************************************************************************)
(* C5: every rung emitted by split_rungs has at least one line, and every  *)
(* line of a rung is trimmed, non-empty and does not start, in lowercase,  *)
(* with "rung" or "network"; an input without content lines gives no rung  *)
(* and the empty string.                                                   *)
(***************************************************************************)
C5_RungsWellFormed ==
    /\ \A i \in 1..Len(rungs) :
           /\ Len(rungs[i]) >= 1
           /\ \A k \in 1..Len(rungs[i]) :
                  LET l == rungs[i][k] IN
                  /\ Len(l) >= 1
                  /\ ~IsSpace(l[1])
                  /\ ~IsSpace(l[Len(l)])
                  /\ ~IsMarker(l)
    /\ (pc = "done" /\ \A k \in 1..Len(lines) : ~IsContentRaw(lines[k]))
           => (rungs = <<>> /\ Str(result) = "")

C5_Witness ==
    /\ pc = "done"
    /\ lines = <<L_Empty, L_Spaces, L_out_Y0, L_NETWORK>>
    /\ rungs = <<<<<<"o","u","t"," "," ","Y","0">>>>>>

(***************************************************************************)
(* C6: a run of blank lines and boundary markers, of any mix and length,   *)
(* between two content lines makes exactly one rung break: the number of   *)
(* rungs is the number of maximal runs of consecutive content lines of     *)
(* the input, and leading or trailing blank or boundary lines make no      *)
(* rung.  While the input is read, the rungs emitted and the buffer, when  *)
(* it holds lines, count the runs of the lines read.                       *)
(***************************************************************************)
C6_OneBreakPerRun ==
    IF pc = "split_rungs"
    THEN Len(rungs) + (IF current # <<>> THEN 1 ELSE 0)
             = Cardinality(RunStarts(li - 1))
    ELSE Len(rungs) = Cardinality(RunStarts(Len(lines)))

C6_Witness ==
    /\ pc = "done"
    /\ lines = <<L_LD_X0, L_Spaces, L_Rung2, L_out_Y0>>
    /\ Len(rungs) = 2

(***************************************************************************)
(* C7: for every rung R that split_rungs emits, the text of R's lines      *)
(* joined with newlines, with a boundary marker line before or after       *)
(* them, segments into exactly one rung, equal to R (checked when          *)
(* split_rungs returns its rungs).                                         *)
(***************************************************************************)
C7_RoundTrip ==
    (pc = "for_rung" /\ idx = 0) =>
        \A i \in 1..Len(rungs) :
            \A m \in {L_Rung2, L_NETWORK} :
                /\ split_rungs(join(<<NL>>, <<m>> \o rungs[i])) = <<rungs[i]>>
                /\ split_rungs(join(<<NL>>, rungs[i] \o <<m>>)) = <<rungs[i]>>

C7_Witness ==
    /\ pc = "for_rung"
    /\ idx = 0
    /\ lines = <<L_LD_X0, L_out_Y0, L_Empty, L_LD_X0>>
    /\ Len(rungs) = 2
    /\ Len(rungs[1]) = 2

(***************************************************************************)
(* C8 as stated: whenever a statement is generated, its expression is      *)
(* non-empty and begins with an operand (optionally negated) rather than   *)
(* with an AND/OR combinator, and its assignment target is non-empty.      *)
(***************************************************************************)
C8_StatementsValid ==
    StatementGenerated =>
        /\ JoinExpr(expr_parts) # <<>>
        /\ ~StartsWithCombinator(JoinExpr(expr_parts))
        /\ coil_assignment[1].operand # <<>>

(***************************************************************************)
(* C8, amended: whenever a statement is generated, its target is the       *)
(* operand of the last coil instruction, empty when that instruction is    *)
(* an opcode alone; if the rung has an LD-family instruction, the          *)
(* expression begins with the operand of the last one, after "NOT " for    *)
(* LDN, and is non-empty when that operand is; if the rung has none, the   *)
(* expression is empty or begins with the combinator "AND " or "OR ".      *)
(***************************************************************************)
C8_StatementShape ==
    StatementGenerated =>
        LET rung == rungs[idx]
            expr == JoinExpr(expr_parts)
        IN  /\ coil_assignment[1].operand = LastCoil(rung).operand
            /\ IF HasLoad(rung)
               THEN LET p    == LastLoad(rung)
                        base == (IF Str(p.op) = "LDN" THEN <<"N","O","T"," ">> ELSE <<>>)
                                    \o p.operand
                    IN  /\ startswith(expr, base)
                        /\ (p.operand # <<>> => expr # <<>>)
               ELSE expr = <<>> \/ StartsWithCombinator(expr)

C8_Witness ==
    /\ pc = "for_rung"
    /\ rungs = <<<<L_AND_X1, L_OUT_Y0>>>>
    /\ NumBlocks = 1
    /\ Str(Block(1)) = "(* Rung 1 *)\nY0 := AND X1;"

(***************************************************************************)
(* C9: translation is fail-soft: whatever the rungs (no coil, unknown      *)
(* opcodes, AND/OR before any LD, missing operands, opcode-only lines),    *)
(* convert_text_to_st reaches no error state, terminates, and emits        *)
(* exactly one block per segmented rung.  Termination: until the program   *)
(* is done the guard of one of its steps holds, and every step lowers the  *)
(* number StepsLeft of steps the program has left, which is zero exactly   *)
(* when it is done.                                                        *)
(***************************************************************************)
C9_FailSoft ==
    /\ [](pc # "error")
    /\ [](pc # "done" => CanStep)
    /\ [][StepsLeft' < StepsLeft]_vars
    /\ [](StepsLeft \in Nat /\ (pc = "done" <=> StepsLeft = 0))
    /\ [](pc = "done" =>
              /\ NumBlocks = Len(split_rungs(text))
              /\ Len(st_lines) = 2 * NumBlocks)

C9_Witness ==
    /\ pc = "done"
    /\ lines = <<L_LD, L_OUT>>
    /\ Str(result) = "(* Rung 1 *)\n := ;\n"

(***************************************************************************)
(* C10: no state crosses rung boundaries: with one worker per rung, in any *)
(* order and interleaving, the block of rung i is the block of rung i's    *)
(* own lines and of i alone, whatever the other workers have done, so no   *)
(* other rung's lines change it; and the blocks put back in index order    *)
(* give the output of the sequential translation.                          *)
(***************************************************************************)
C10_RungsIndependent ==
    /\ \A k \in DOMAIN blocks : blocks[k] = rung_to_st(rungs[k], k)
    /\ pc = "done" => result = convert_text_to_st(text)

C10_Witness ==
    /\ pc = "for_rung"
    /\ Len(rungs) = 2
    /\ DOMAIN blocks = {2}
    /\ DOMAIN work = {1, 2}
    /\ work[1].ri = 2
    /\ Len(rungs[1]) = 2

(***************************************************************************)
(* C11: opcode matching is case-insensitive: in every rung, writing the    *)
(* opcode token of any instruction in another letter case (all capitals,   *)
(* all small, capitalised, or small then capitals) leaves the translated   *)
(* block unchanged; the operand is the rest of the line, trimmed, with     *)
(* every character as written, and the variant has the same operand.       *)
(***************************************************************************)
\* The letter cases of a token.
CaseVariants(tok) ==
    IF tok = <<>> THEN {tok}
    ELSE {upper(tok), lower(tok),
          <<UpperChar(Head(tok))>> \o lower(Tail(tok)),
          <<LowerChar(Head(tok))>> \o upper(Tail(tok))}

\* The trimmed line with its opcode token written as v.
WithOpcode(instr, v) ==
    LET s == lstrip(instr) IN v \o SubSeq(s, Len(FirstToken(s)) + 1, Len(s))

\* The text of the line after its opcode token.
AfterOpcode(instr) ==
    LET s == lstrip(instr) IN SubSeq(s, Len(FirstToken(s)) + 1, Len(s))

C11_OpcodeCaseInsensitive ==
    (pc = "for_rung" /\ idx = 0) =>
        \A i \in 1..Len(rungs) :
            LET block == rung_to_st(rungs[i], i) IN
            \A k \in 1..Len(rungs[i]) :
                LET instr   == rungs[i][k]
                    operand == _parse_instruction(instr).operand
                IN  /\ operand = strip(AfterOpcode(instr))
                    /\ \A v \in CaseVariants(FirstToken(lstrip(instr))) :
                           LET other == WithOpcode(instr, v) IN
                           /\ _parse_instruction(other).operand = operand
                           /\ rung_to_st([rungs[i] EXCEPT ![k] = other], i)
                                  = block

C11_Witness ==
    /\ pc = "done"
    /\ rungs = <<<<L_ldn_X1, L_Out_y0>>>>
    /\ WithOpcode(L_ldn_X1, <<"L","d","n">>) = <<"L","d","n"," ","X","1">>
    /\ Str(result) = "(* Rung 1 *)\ny0 := NOT X1;\n"

(***************************************************************************)
(* C12: the segmenter loses, duplicates and reorders nothing.  While the   *)
(* input is read, the rungs emitted so far followed by the buffer are the  *)
(* trimmed content lines read so far, in their order, and as many as the   *)
(* content lines read; at end of input a buffer that holds lines is        *)
(* emitted as the final rung and an empty one emits nothing; the rungs     *)
(* that split_rungs returns, one after the other, are exactly the trimmed  *)
(* content lines of the input in their original order, each in one rung,   *)
(* and they never change afterwards.                                       *)
(***************************************************************************)
\* The lines of the rungs, one rung after the other.
RECURSIVE Flatten(_)
Flatten(rs) == IF rs = <<>> THEN <<>> ELSE Head(rs) \o Flatten(Tail(rs))

\* The content lines among ls, trimmed, in their order.
RECURSIVE TrimmedContent(_)
TrimmedContent(ls) ==
    IF ls = <<>> THEN <<>>
    ELSE IF IsContentRaw(Head(ls))
         THEN <<strip(Head(ls))>> \o TrimmedContent(Tail(ls))
         ELSE TrimmedContent(Tail(ls))

\* The positions of the content lines among the first n lines.
ContentPositions(n) == {k \in 1..n : IsContentRaw(lines[k])}

C12_NothingLost ==
    /\ [](IF pc = "split_rungs"
          THEN /\ Flatten(rungs) \o current
                      = TrimmedContent(SubSeq(lines, 1, li - 1))
               /\ Len(Flatten(rungs)) + Len(current)
                      = Cardinality(ContentPositions(li - 1))
          ELSE (pc = "for_rung" /\ idx = 0) =>
                   /\ Flatten(rungs) = TrimmedContent(lines)
                   /\ Len(Flatten(rungs))
                          = Cardinality(ContentPositions(Len(lines))))
    /\ [][(pc = "split_rungs" /\ pc' # "split_rungs") =>
              /\ li > Len(lines)
              /\ IF current # <<>>
                 THEN /\ rungs' = Append(rungs, current)
                      /\ rungs'[Len(rungs')] = current
                 ELSE rungs' = rungs]_vars
    /\ [][pc # "split_rungs" => rungs' = rungs]_vars

C12_Witness ==
    /\ pc = "for_rung"
    /\ idx = 0
    /\ lines = <<L_out_Y0, L_Rung2, L_LD_X0, L_out_Y0>>
    /\ current = <<L_LD_X0, <<"o","u","t"," "," ","Y","0">>>>
    /\ Len(rungs) = 2
    /\ rungs[2] = current

(***************************************************************************)
(* C13 as stated: after every step of the builder, if the fragment list is *)
(* non-empty, its first fragment is the base condition produced by an      *)
(* LD-family instruction (the operand, or "NOT " and the operand for LDN), *)
(* and every later fragment starts with "AND " or "OR ".                   *)
(***************************************************************************)
\* The base condition of a parsed LD-family instruction.
BaseCondition(p) ==
    (IF Str(p.op) = "LDN" THEN "NOT " ELSE "") \o Str(p.operand)

\* The instructions of the rung in hand that the builder has read.
Seen == SubSeq(rungs[idx], 1, ri - 1)

LaterFragmentsCombine ==
    \A k \in 2..Len(expr_parts) : StartsWithCombinator(expr_parts[k])

C13_FirstFragmentIsBase ==
    (pc = "rung_to_expression" /\ expr_parts # <<>>) =>
        /\ HasLoad(Seen)
        /\ Str(expr_parts[1]) = BaseCondition(LastLoad(Seen))
        /\ LaterFragmentsCombine

(***************************************************************************)
(* C13, amended: after every step of the builder every fragment after the  *)
(* first starts with "AND " or "OR "; when an LD-family instruction has    *)
(* been read, the list is non-empty and its first fragment is the base     *)
(* condition of the last one (the operand, or "NOT " and the operand for   *)
(* LDN); when none has been read, the first fragment, if there is one,     *)
(* starts with "AND " or "OR " as well, and the list is empty exactly when *)
(* no AND/OR-family instruction has been read.                             *)
(***************************************************************************)
IsCombineLine(instr) ==
    Str(_parse_instruction(instr).op) \in {"AND", "ANDP", "ANDN", "OR", "ORP", "ORN"}

C13_FragmentsShape ==
    pc = "rung_to_expression" =>
        /\ LaterFragmentsCombine
        /\ IF HasLoad(Seen)
           THEN /\ expr_parts # <<>>
                /\ Str(expr_parts[1]) = BaseCondition(LastLoad(Seen))
           ELSE /\ \A k \in 1..Len(expr_parts) : StartsWithCombinator(expr_parts[k])
                /\ expr_parts = <<>>
                       <=> \A k \in 1..Len(Seen) : ~IsCombineLine(Seen[k])

C13_Witness ==
    /\ pc = "rung_to_expression"
    /\ rungs[idx] = <<L_AND_X1, L_ldn_X1, L_ORN_X0>>
    /\ ri = 4
    /\ Str(expr_parts[1]) = "NOT X1"
    /\ Str(expr_parts[2]) = "OR NOT X0"
    /\ Len(expr_parts) = 2

(***************************************************************************)
(* C14: an LD-family instruction starts the fragment list again: when the  *)
(* builder has read a rung, the expression is the fragment of the last     *)
(* LD/LDP/LDN instruction followed by the fragments of the AND/OR-family   *)
(* instructions after it, in order, with one space between fragments;      *)
(* what comes before the last LD-family instruction adds nothing; with no  *)
(* LD-family instruction the expression is the fragments of all the        *)
(* AND/OR-family instructions, joined in the same way.                     *)
(***************************************************************************)
\* The index of the last LD-family instruction of the rung, 0 without one.
LastLoadIndex(rung) ==
    IF HasLoad(rung)
    THEN CHOOSE j \in 1..Len(rung) :
             IsLoadLine(rung[j]) /\ \A m \in (j + 1)..Len(rung) : ~IsLoadLine(rung[m])
    ELSE 0

\* The fragment of an AND/OR-family instruction, as text.
CombineFragment(p) ==
    LET op == Str(p.op) IN
    (CASE op \in {"AND", "ANDP"} -> "AND "
       [] op = "ANDN"            -> "AND NOT "
       [] op \in {"OR", "ORP"}   -> "OR "
       [] op = "ORN"             -> "OR NOT ") \o Str(p.operand)

\* The fragments of the AND/OR-family instructions among instrs, as texts.
RECURSIVE CombineFragments(_)
CombineFragments(instrs) ==
    IF instrs = <<>> THEN <<>>
    ELSE IF IsCombineLine(Head(instrs))
         THEN <<CombineFragment(_parse_instruction(Head(instrs)))>>
                  \o CombineFragments(Tail(instrs))
         ELSE CombineFragments(Tail(instrs))

\* The texts with one space between consecutive ones.
RECURSIVE SpaceSeparated(_)
SpaceSeparated(ts) ==
    IF ts = <<>> THEN ""
    ELSE IF Len(ts) = 1 THEN ts[1]
    ELSE ts[1] \o " " \o SpaceSeparated(Tail(ts))

ExpectedExpression(rung) ==
    LET j == LastLoadIndex(rung)
        after == CombineFragments(SubSeq(rung, j + 1, Len(rung)))
    IN  IF j = 0 THEN SpaceSeparated(after)
        ELSE SpaceSeparated(<<BaseCondition(_parse_instruction(rung[j]))>> \o after)

C14_LastLoadStartsExpression ==
    (pc = "rung_to_expression" /\ ri > Len(rungs[idx])) =>
        /\ Str(JoinExpr(expr_parts)) = ExpectedExpression(rungs[idx])
        /\ Str(rung_to_expression(rungs[idx]).expr) = ExpectedExpression(rungs[idx])

C14_Witness ==
    /\ pc = "rung_to_expression"
    /\ rungs[idx] = <<L_ORN_X0, L_LD_X0, L_AND_X1>>
    /\ ri = 4
    /\ Len(expr_parts) = 2
    /\ Str(JoinExpr(expr_parts)) = "X0 AND X1"

(***************************************************************************)
(* C15: an instruction whose opcode is none of LD, LDP, LDN, AND, ANDP,    *)
(* ANDN, OR, ORP, ORN, OUT, OUTNOT, SET, RST leaves the fragment list and  *)
(* the recorded coil assignment as they are; so the block of a rung of at  *)
(* least two lines is the block of the rung without such a line; and the   *)
(* rung [LD X0, XYZ X1, OUT Y0] gives the statement "Y0 := X0;".           *)
(***************************************************************************)
KnownOpcodes ==
    {"LD", "LDP", "LDN", "AND", "ANDP", "ANDN", "OR", "ORP", "ORN",
     "OUT", "OUTNOT", "SET", "RST"}

IsUnknownLine(instr) == Str(_parse_instruction(instr).op) \notin KnownOpcodes

\* The rung without its k-th line.
RemoveAt(rung, k) == SubSeq(rung, 1, k - 1) \o SubSeq(rung, k + 1, Len(rung))

C15_UnknownOpcodeIgnored ==
    /\ [][(/\ pc = "rung_to_expression"
           /\ ri <= Len(rungs[idx])
           /\ IsUnknownLine(rungs[idx][ri]))
              => /\ expr_parts' = expr_parts
                 /\ coil_assignment' = coil_assignment
                 /\ ri' = ri + 1
                 /\ pc' = pc]_vars
    /\ [](pc = "for_rung" =>
              \A i \in 1..NumBlocks :
                  \A k \in 1..Len(rungs[i]) :
                      (IsUnknownLine(rungs[i][k]) /\ Len(rungs[i]) >= 2) =>
                          rung_to_st(RemoveAt(rungs[i], k), i) = Block(i))
    /\ []((pc = "done" /\ rungs = <<<<L_LD_X0, L_XYZ_X1, L_OUT_Y0>>>>) =>
              Str(result) = "(* Rung 1 *)\nY0 := X0;\n")

C15_Witness ==
    /\ pc = "done"
    /\ rungs = <<<<L_LD_X0, L_XYZ_X1, L_OUT_Y0>>>>
    /\ Str(Block(1)) = "(* Rung 1 *)\nY0 := X0;"
    /\ Block(1) = rung_to_st(<<L_LD_X0, L_OUT_Y0>>, 1)

(***************************************************************************)
(* C16 as stated: when the texts of several sources are joined with a      *)
(* newline and segmented, no rung holds content lines of two different     *)
(* sources.                                                                *)
(***************************************************************************)
\* The source of each content line of the sources from s on, in order.
RECURSIVE OriginsFrom(_)
OriginsFrom(s) ==
    IF s > Len(pdf_texts) THEN <<>>
    ELSE [k \in 1..Len(TrimmedContent(splitlines(pdf_texts[s]))) |-> s]
             \o OriginsFrom(s + 1)

\* The source of each content line of the joined text, in order.
ContentOrigins == OriginsFrom(1)

\* The content lines of the sources, source after source.
RECURSIVE ContentFrom(_)
ContentFrom(s) ==
    IF s > Len(pdf_texts) THEN <<>>
    ELSE TrimmedContent(splitlines(pdf_texts[s])) \o ContentFrom(s + 1)

\* The content lines of the joined text are those of the sources, source
\* after source, so that ContentOrigins names the source of each.
OriginsMatchContent ==
    pc \in {"split_rungs", "for_rung", "rung_to_expression", "done"} =>
        /\ TrimmedContent(lines) = ContentFrom(1)
        /\ Len(ContentOrigins) = Len(TrimmedContent(lines))

\* The number of content lines in the rungs before rung i.
RungOffset(i) == Len(Flatten(SubSeq(rungs, 1, i - 1)))

\* The sources of the lines of rung i.
SourcesOfRung(i) ==
    {ContentOrigins[RungOffset(i) + a] : a \in 1..Len(rungs[i])}

C16_NoRungSpansSources ==
    (pc \in {"for_rung", "rung_to_expression", "done"} /\ pdf_texts # <<>>) =>
        \A i \in 1..Len(rungs) : Cardinality(SourcesOfRung(i)) = 1

\* The sources "LD X0" and "OUT Y0": one rung holds the lines of both.
C16_Witness ==
    /\ pc = "done"
    /\ pdf_texts = <<T_LD, T_OUT>>
    /\ rungs = <<<<L_LD_X0, L_OUT_Y0>>>>
    /\ SourcesOfRung(1) = {1, 2}
    /\ Str(result) = "(* Rung 1 *)\nY0 := X0;\n"

(***************************************************************************)
(* C17: the comment "(* Unsupported coil opcode ... *)" is never emitted.  *)
(* A coil assignment is recorded for the opcodes OUT, OUTNOT, SET and RST  *)
(* only; so every block of the output, and the block that rung_to_st       *)
(* gives for the raw lines of the input taken as one rung, is the no-coil  *)
(* comment or the line "(* Rung {index} *)" followed by one of the four    *)
(* statement forms over the recorded operand and the expression, and its   *)
(* statement line is never the unsupported-opcode comment.                 *)
(***************************************************************************)
\* The four statement forms over a target and an expression, as texts.
StatementFormsOf(coil, expr) ==
    {coil \o " := " \o expr \o ";",
     coil \o " := NOT (" \o expr \o ");",
     "IF " \o expr \o " THEN " \o coil \o " := TRUE; END_IF;",
     "IF " \o expr \o " THEN " \o coil \o " := FALSE; END_IF;"}

\* The blocks that the claim allows for the rung at the index.
AllowedBlocks(rung, index) ==
    LET r == rung_to_expression(rung)
        n == Str(IntToStr(index))
    IN  IF r.coil_assign = None
        THEN {"(* Rung " \o n \o ": no coil found *)"}
        ELSE {"(* Rung " \o n \o " *)\n" \o f :
                  f \in StatementFormsOf(Str(r.coil_assign[1].operand), Str(r.expr))}

\* Whether the last line of the block is the unsupported-opcode comment.
IsUnsupportedComment(block) ==
    LET ls   == splitlines(block)
        last == ls[Len(ls)]
    IN  /\ ls # <<>>
        /\ startswith(last, S_Unsupported)
        /\ Len(last) >= Len(S_Unsupported) + Len(S_CommentClose)
        /\ SubSeq(last, Len(last) - Len(S_CommentClose) + 1, Len(last))
               = S_CommentClose

C17_UnsupportedUnreachable ==
    /\ coil_assignment # None =>
           Str(coil_assignment[1].op) \in {"OUT", "OUTNOT", "SET", "RST"}
    /\ pc = "done" =>
           \A i \in 1..NumBlocks :
               /\ Str(Block(i)) \in AllowedBlocks(rungs[i], i)
               /\ ~IsUnsupportedComment(Block(i))
    /\ pc = "done" =>
           /\ Str(rung_to_st(lines, 1)) \in AllowedBlocks(lines, 1)
           /\ ~IsUnsupportedComment(rung_to_st(lines, 1))

C17_Witness ==
    /\ pc = "done"
    /\ rungs = <<<<L_XYZ_X1, L_RST_Y0>>>>
    /\ coil_assignment = <<[op |-> OP_RST, operand |-> <<"Y","0">>]>>
    /\ Str(result) = "(* Rung 1 *)\nIF  THEN Y0 := FALSE; END_IF;\n"

====
